---- MODULE Spec2Model ----
(***************************************************************************)
(* A model of webapp/main.py of docker-registry-webui: the OCI digest      *)
(* validator, the TTL-gated Registry / Repository caches over a Docker     *)
(* Registry v2 store on disk, the blob store and the manifest / config     *)
(* resolvers.                                                              *)
(*                                                                         *)
(* Strings whose characters the code inspects (digests, directory names)   *)
(* are sequences of one-character strings.  File contents are named byte   *)
(* strings (see BlobBytes) and json.loads is the table JsonLoads.          *)
(***************************************************************************)
EXTENDS Integers, Sequences, FiniteSets, TLC

VARIABLES
    now,                  \* time.time(), in ticks
    registry_load_ttl,    \* Registry.load_ttl (Settings.registry_load_ttl)
    repository_load_ttl,  \* Repository.load_ttl (Settings.repository_load_ttl)
    repo_dirs,            \* disk: repositories/<name>/_manifests/{revisions/sha256,tags}
    blob_files,           \* disk: blobs/sha256/<hex[0:2]>/<hex>/data
    edits,                \* how many changes the daemon has made to the store
    cached_repositories,  \* Registry.cached_repositories: name -> Repository
    last_load,            \* Registry.last_load
    last,                 \* the last call made on the Registry and what it did
    value,                \* the string handed to OciDigest.Validator.validate
    validated,            \* what validate did with it
    pc,                   \* per worker: its position inside Registry.repositories()
    local_now,            \* per worker: the local variable `now` of repositories()
    pending,              \* per worker: the directories its rglob has yet to yield
    observed,             \* per worker: the keys it saw in the returned map
    disk_seen,            \* the sets of repositories the disk has held so far
    image,                \* the OciImageManifest that size() is called on
    total                 \* <<what size() returned>>, empty before the call

vars == <<now, registry_load_ttl, repository_load_ttl, repo_dirs, blob_files, edits,
          cached_repositories, last_load, last, value, validated,
          pc, local_now, pending, observed, disk_seen, image, total>>

(***************************************************************************)
(* Strings                                                                 *)
(***************************************************************************)
Rep(c, n) == [i \in 1..n |-> c]

HexLen256 == 64
HexLen512 == 128

\* the character class [a-f0-9] of RE_SHA256 and RE_SHA512
HexClass == {"a", "b", "c", "d", "e", "f",
             "0", "1", "2", "3", "4", "5", "6", "7", "8", "9"}

\* OciDigest.Algorithm
SHA256 == <<"s", "h", "a", "2", "5", "6">>
SHA512 == <<"s", "h", "a", "5", "1", "2">>
Colon == <<":">>

(***************************************************************************)
(* OciDigest.Validator: RE_VALIDATE = ^(RE_SHA256|RE_SHA512)$ applied      *)
(* with fullmatch.  The matchers return the set of positions at which a    *)
(* match starting at position p can end (p itself = nothing consumed).     *)
(***************************************************************************)
\* a literal string
MatchLiteral(s, p, lit) ==
    IF /\ p + Len(lit) - 1 <= Len(s)
       /\ \A i \in 1..Len(lit) : s[p + i - 1] = lit[i]
    THEN {p + Len(lit)} ELSE {}

\* [class]{n}
MatchClassTimes(s, p, class, n) ==
    IF /\ p + n - 1 <= Len(s)
       /\ \A i \in p..(p + n - 1) : s[i] \in class
    THEN {p + n} ELSE {}

\* sha256:[a-f0-9]{64}
RE_SHA256(s, p) ==
    UNION {MatchClassTimes(s, q, HexClass, HexLen256) :
             q \in MatchLiteral(s, p, SHA256 \o Colon)}

\* sha512:[a-f0-9]{128}
RE_SHA512(s, p) ==
    UNION {MatchClassTimes(s, q, HexClass, HexLen512) :
             q \in MatchLiteral(s, p, SHA512 \o Colon)}

\* ^ matches at the start of the string only (no MULTILINE flag)
MatchCaret(s, p) == IF p = 1 THEN {p} ELSE {}

\* $ matches at the end of the string and before a newline that ends it
MatchDollar(s, p) ==
    IF \/ p = Len(s) + 1
       \/ (p = Len(s) /\ s[p] = "\n")
    THEN {p} ELSE {}

\* the places a match of RE_VALIDATE starting at 1 can end
RE_VALIDATE(s) ==
    UNION {MatchDollar(s, q) :
             q \in UNION {RE_SHA256(s, p) \cup RE_SHA512(s, p) :
                            p \in MatchCaret(s, 1)}}

\* a use of re.match in place of re.fullmatch: the match may end anywhere
FullMatchAsMatch(s) == RE_VALIDATE(s) /= {}

\* Pattern.fullmatch: the match must end at the end of the string
FullMatch(s) == (Len(s) + 1) \in RE_VALIDATE(s)

\* a validator that returns every value
ValidateAnything(s) == TRUE

\* OciDigest.Validator.validate: TRUE when it returns the value, FALSE when
\* it raises ValueError
Validate(s) == FullMatch(s)

\* OciDigest.algorithm(): value.split(':')[0]
Algorithm(digest) ==
    LET colons == {i \in 1..Len(digest) : digest[i] = ":"}
        first == CHOOSE i \in colons : \A j \in colons : i <= j
    IN  SubSeq(digest, 1, first - 1)

\* OciDigest.encoded(): value.split(':')[1]
Encoded(digest) ==
    LET colons == {i \in 1..Len(digest) : digest[i] = ":"}
        first == CHOOSE i \in colons : \A j \in colons : i <= j
        rest == {j \in colons : j > first}
        stop == IF rest = {} THEN Len(digest) + 1
                ELSE CHOOSE j \in rest : \A k \in rest : j <= k
    IN  SubSeq(digest, first + 1, stop - 1)

\* OciDigest.from_raw_digest: the string that OciDigest(value=...) is then
\* asked to validate
FromRawDigest(algorithm, hex) == algorithm \o Colon \o hex

(***************************************************************************)
(* Outcomes of a call: a returned value, an HTTPException the code raises, *)
(* or another exception that escapes the call.                             *)
(***************************************************************************)
None == [type |-> "NoneType", v |-> 0]

Returned(v) == [raised |-> "none", status |-> 0, detail |-> "", value |-> v]

HTTPException(status, detail) ==
    [raised |-> "HTTPException", status |-> status, detail |-> detail,
     value |-> None]

Uncaught(exception) ==
    [raised |-> exception, status |-> 0, detail |-> "", value |-> None]

NotFound(o) == o.raised = "HTTPException" /\ o.status = 404
InternalError(o) == o.raised = "HTTPException" /\ o.status = 500
Escaped(o) == o.raised \notin {"none", "HTTPException"}

(***************************************************************************)
(* JSON values, as json.loads builds them, and the OCI documents.          *)
(***************************************************************************)
JInt(n) == [type |-> "int", v |-> n]
JFloat(whole, tenths) == [type |-> "float", v |-> whole, tenths |-> tenths]
JStr(s) == [type |-> "str", v |-> s]
JList(items) == [type |-> "list", v |-> items]
JDict(fields) == [type |-> "dict", v |-> fields]

\* OciMediaType
oci_image_index == "application/vnd.oci.image.index.v1+json"
oci_image_manifest == "application/vnd.oci.image.manifest.v1+json"
oci_image_config == "application/vnd.oci.image.config.v1+json"
oci_layer_tar_gz == "application/vnd.oci.image.layer.v1.tar+gzip"
docker_manifest_v2 == "application/vnd.docker.distribution.manifest.v2+json"

\* dict.get(key): the value, or None
Get(data, key) == IF key \in DOMAIN data.v THEN data.v[key] ELSE None
Has(data, key) == key \in DOMAIN data.v

\* pydantic's int field: int(v) of what json.loads can hand it
IntField(j) ==
    CASE j.type = "int" -> [ok |-> TRUE, v |-> j.v]
      [] j.type = "float" -> [ok |-> TRUE, v |-> j.v]
      [] j.type = "str" /\ j.v = "1" -> [ok |-> TRUE, v |-> 1]
      [] j.type = "str" /\ j.v = "2" -> [ok |-> TRUE, v |-> 2]
      [] OTHER -> [ok |-> FALSE, v |-> 0]

\* pydantic's str field
StrField(j) ==
    IF j.type = "str" THEN [ok |-> TRUE, v |-> j.v] ELSE [ok |-> FALSE, v |-> ""]

\* schema_revision_validator, run on the int pydantic made of the field
schema_revision_validator(v) == v = 2

\* OciContentDescriptor(**j): mediaType, digest and size are required
OciContentDescriptor(j) ==
    IF /\ j.type = "dict"
       /\ Has(j, "mediaType") /\ StrField(j.v["mediaType"]).ok
       /\ Has(j, "digest") /\ StrField(j.v["digest"]).ok
       /\ Has(j, "size") /\ IntField(j.v["size"]).ok
    THEN [ok |-> TRUE,
          v |-> [mediaType |-> StrField(j.v["mediaType"]).v,
                 digest |-> StrField(j.v["digest"]).v,
                 size |-> IntField(j.v["size"]).v]]
    ELSE [ok |-> FALSE, v |-> None]

\* list[OciContentDescriptor]
DescriptorList(j) ==
    IF j.type = "list" /\ \A i \in 1..Len(j.v) : OciContentDescriptor(j.v[i]).ok
    THEN [ok |-> TRUE, v |-> [i \in 1..Len(j.v) |-> OciContentDescriptor(j.v[i]).v]]
    ELSE [ok |-> FALSE, v |-> <<>>]

\* the two fields OciImageManifest and OciImageIndex share, with their
\* validators: schemaVersion (schema_revision_validator) and mediaType
\* (media_type_validator against `expected`)
VersionAndMediaType(data, expected) ==
    /\ Has(data, "schemaVersion")
    /\ IntField(data.v["schemaVersion"]).ok
    /\ schema_revision_validator(IntField(data.v["schemaVersion"]).v)
    /\ Has(data, "mediaType")
    /\ StrField(data.v["mediaType"]).ok
    /\ StrField(data.v["mediaType"]).v = expected

\* OciImageIndex(**data): the model object, or ValidationError
OciImageIndex(data) ==
    IF /\ VersionAndMediaType(data, oci_image_index)
       /\ Has(data, "manifests") => DescriptorList(data.v["manifests"]).ok
    THEN [ok |-> TRUE,
          v |-> [class |-> "OciImageIndex",
                 schemaVersion |-> IntField(data.v["schemaVersion"]).v,
                 mediaType |-> StrField(data.v["mediaType"]).v,
                 manifests |-> IF Has(data, "manifests")
                               THEN DescriptorList(data.v["manifests"]).v
                               ELSE <<>>]]
    ELSE [ok |-> FALSE, v |-> None]

\* OciImageManifest(**data): the model object, or ValidationError
OciImageManifest(data) ==
    IF /\ VersionAndMediaType(data, oci_image_manifest)
       /\ Has(data, "config") /\ OciContentDescriptor(data.v["config"]).ok
       /\ Has(data, "layers") /\ DescriptorList(data.v["layers"]).ok
    THEN [ok |-> TRUE,
          v |-> [class |-> "OciImageManifest",
                 schemaVersion |-> IntField(data.v["schemaVersion"]).v,
                 mediaType |-> StrField(data.v["mediaType"]).v,
                 config |-> OciContentDescriptor(data.v["config"]).v,
                 layers |-> DescriptorList(data.v["layers"]).v]]
    ELSE [ok |-> FALSE, v |-> None]

\* OciImageManifest.size, the loop: total += layer.size
RECURSIVE AddLayers(_, _, _)
AddLayers(layers, i, sum) ==
    IF i > Len(layers) THEN sum ELSE AddLayers(layers, i + 1, sum + layers[i].size)

\* a size() whose total starts at 0 and not at the config's size
SizeWithoutConfig(manifest) == AddLayers(manifest.layers, 1, 0)

\* OciImageManifest.size
Size(manifest) == AddLayers(manifest.layers, 1, manifest.config.size)

\* OciImageConfig.RootFilesystem
RootFilesystem(j) ==
    /\ j.type = "dict"
    /\ Has(j, "type") /\ StrField(j.v["type"]).ok
    /\ Has(j, "diff_ids") /\ j.v["diff_ids"].type = "list"
    /\ \A i \in 1..Len(j.v["diff_ids"].v) : StrField(j.v["diff_ids"].v[i]).ok

\* OciImageConfig(**data): architecture, os and rootfs are required
OciImageConfig(data) ==
    IF /\ Has(data, "architecture") /\ StrField(data.v["architecture"]).ok
       /\ Has(data, "os") /\ StrField(data.v["os"]).ok
       /\ Has(data, "rootfs") /\ RootFilesystem(data.v["rootfs"])
    THEN [ok |-> TRUE,
          v |-> [class |-> "OciImageConfig",
                 architecture |-> StrField(data.v["architecture"]).v,
                 os |-> StrField(data.v["os"]).v]]
    ELSE [ok |-> FALSE, v |-> None]

(***************************************************************************)
(* The store on disk.                                                      *)
(***************************************************************************)
\* directory names under revisions/sha256 and the digests they stand for
H1 == Rep("a", HexLen256)
H2 == Rep("b", HexLen256)
H3 == Rep("c", HexLen256)
TmpName == <<"t", "m", "p">>
D1 == FromRawDigest(SHA256, H1)
D2 == FromRawDigest(SHA256, H2)
D3 == FromRawDigest(SHA256, H3)
D512 == FromRawDigest(SHA512, Rep("d", HexLen512))

\* the repository present at start-up, and those the daemon may create
InitialNames == {"a"}
RepoNames == {"a", "lib/b"}
\* the revision directories, tag directories and link files the registry
\* daemon may create
EnvRevisions(name) == IF name = "a" THEN {H1, H2, TmpName} ELSE {H2}
EnvTags(name) == IF name = "a" THEN {"v1", "v2"} ELSE {}
EnvLinks == {D1, D2}
AllRevisions == UNION {EnvRevisions(n) : n \in RepoNames}
AllTags == UNION {EnvTags(n) : n \in RepoNames}

\* the orders in which iterdir() may yield the entries of a directory
OrdersOf(S) ==
    {o \in [1..Cardinality(S) -> S] : \A i, j \in DOMAIN o : i /= j => o[i] /= o[j]}
Listing(entries, order) == SelectSeq(order, LAMBDA x : x \in entries)

\* maps (dict, directory): put and remove a key
Put(f, k, x) == [i \in DOMAIN f \cup {k} |-> IF i = k THEN x ELSE f[i]]
Remove(f, k) == [i \in DOMAIN f \ {k} |-> f[i]]
Empty == <<>>

\* the named byte strings a data file may hold
BlobBytes == {"index", "index_v1", "manifest", "manifest_v2_5",
              "manifest_no_layers", "docker_v2", "no_media_type", "array",
              "truncated", "config", "config_no_arch"}

Descriptor(mediaType, digest, size) ==
    JDict([mediaType |-> JStr(mediaType), digest |-> JStr(digest),
           size |-> JInt(size)])

\* json.loads(content): the value, or JSONDecodeError
JsonLoads(content) ==
    CASE content = "index" ->
           Returned(JDict([schemaVersion |-> JInt(2),
                           mediaType |-> JStr(oci_image_index),
                           manifests |-> JList(<<Descriptor(oci_image_manifest, "D2", 50)>>)]))
      [] content = "index_v1" ->
           Returned(JDict([schemaVersion |-> JInt(1),
                           mediaType |-> JStr(oci_image_index),
                           manifests |-> JList(<<>>)]))
      [] content = "manifest" ->
           Returned(JDict([schemaVersion |-> JInt(2),
                           mediaType |-> JStr(oci_image_manifest),
                           config |-> Descriptor(oci_image_config, "D3", 100),
                           layers |-> JList(<<Descriptor(oci_layer_tar_gz, "L1", 50),
                                              Descriptor(oci_layer_tar_gz, "L2", 75)>>)]))
      [] content = "manifest_v2_5" ->
           Returned(JDict([schemaVersion |-> JFloat(2, 5),
                           mediaType |-> JStr(oci_image_manifest),
                           config |-> Descriptor(oci_image_config, "D3", 100),
                           layers |-> JList(<<>>)]))
      [] content = "manifest_no_layers" ->
           Returned(JDict([schemaVersion |-> JInt(2),
                           mediaType |-> JStr(oci_image_manifest),
                           config |-> Descriptor(oci_image_config, "D3", 100)]))
      [] content = "docker_v2" ->
           Returned(JDict([schemaVersion |-> JInt(2),
                           mediaType |-> JStr(docker_manifest_v2),
                           config |-> Descriptor(oci_image_config, "D3", 100),
                           layers |-> JList(<<>>)]))
      [] content = "no_media_type" ->
           Returned(JDict([schemaVersion |-> JInt(1), name |-> JStr("a")]))
      [] content = "array" -> Returned(JList(<<>>))
      [] content = "config" ->
           Returned(JDict([architecture |-> JStr("amd64"), os |-> JStr("linux"),
                           rootfs |-> JDict([type |-> JStr("layers"),
                                             diff_ids |-> JList(<<JStr("L1")>>)])]))
      [] content = "config_no_arch" ->
           Returned(JDict([os |-> JStr("linux"),
                           rootfs |-> JDict([type |-> JStr("layers"),
                                             diff_ids |-> JList(<<>>)])]))
      [] OTHER -> Uncaught("JSONDecodeError")

\* what a path under blobs/ may be
RegularFile(content) == [kind |-> "file", content |-> content]
Directory == [kind |-> "dir", content |-> ""]
Unreadable == [kind |-> "unreadable", content |-> ""]
FileStates == {RegularFile(c) : c \in BlobBytes} \cup {Directory, Unreadable}

\* open(path, 'rb') and f.read(): the bytes, or the OSError raised
OpenRead(files, path) ==
    IF path \notin DOMAIN files THEN Uncaught("FileNotFoundError")
    ELSE IF files[path].kind = "dir" THEN Uncaught("IsADirectoryError")
    ELSE IF files[path].kind = "unreadable" THEN Uncaught("PermissionError")
    ELSE Returned(files[path].content)

(***************************************************************************)
(* Repository                                                              *)
(***************************************************************************)
Revision(digest) == [digest |-> digest, tags |-> <<>>]
Tag(name, digest) == [name |-> name, digest |-> digest]

\* Repository(path=..., name=...): cached_revisions and last_load default
Repository(name) == [name |-> name, cached_revisions |-> Empty, last_load |-> 0]

\* Repository.load, first loop: a Revision per directory of revisions/sha256
RECURSIVE LoadRevisions(_, _, _)
LoadRevisions(children, i, revisions) ==
    IF i > Len(children) THEN [raised |-> "none", cached_revisions |-> revisions]
    ELSE LET digest == FromRawDigest(SHA256, children[i])
         IN  IF ~Validate(digest)
             THEN [raised |-> "ValidationError", cached_revisions |-> revisions]
             ELSE LoadRevisions(children, i + 1, Put(revisions, digest, Revision(digest)))

\* Repository.hash_for_tag and Repository.load, second loop: a Tag per
\* directory of tags, its digest read from current/link
RECURSIVE LoadTags(_, _, _, _)
LoadTags(children, links, i, tags) ==
    IF i > Len(children) THEN [raised |-> "none", tags |-> tags]
    ELSE IF ~Validate(links[children[i]])
         THEN [raised |-> "ValidationError", tags |-> tags]
         ELSE LoadTags(children, links, i + 1,
                       Append(tags, Tag(children[i], links[children[i]])))

\* the tags list of revision `digest` after appending `tag` twice
AppendTagTwice(revisions, tag) ==
    [revisions EXCEPT ![tag.digest].tags = Append(Append(@, tag), tag)]

\* self.cached_revisions[tag.digest].tags.append(tag)
AppendTag(revisions, tag) ==
    [revisions EXCEPT ![tag.digest].tags = Append(@, tag)]

\* Repository.load, third loop: link tags to revisions
RECURSIVE LinkTags(_, _, _)
LinkTags(tags, i, revisions) ==
    IF i > Len(tags) THEN [raised |-> "none", cached_revisions |-> revisions]
    ELSE IF tags[i].digest \notin DOMAIN revisions
         THEN [raised |-> "KeyError", cached_revisions |-> revisions]
         ELSE LinkTags(tags, i + 1, AppendTag(revisions, tags[i]))

\* Repository.load up to its last line: the exception raised, if any, and
\* the cached_revisions it leaves.  dirs[name] is the repository's
\* _manifests tree, absent when the directory has been deleted.
RepositoryLoad(dirs, name, revOrder, tagOrder) ==
    IF name \notin DOMAIN dirs
    THEN [raised |-> "FileNotFoundError", cached_revisions |-> Empty]
    ELSE LET dir == dirs[name]
             revs == LoadRevisions(Listing(dir.revisions, revOrder), 1, Empty)
             tags == LoadTags(Listing(DOMAIN dir.tags, tagOrder), dir.tags, 1, <<>>)
         IN  IF revs.raised /= "none" THEN revs
             ELSE IF tags.raised /= "none"
                  THEN [raised |-> tags.raised, cached_revisions |-> revs.cached_revisions]
                  ELSE LinkTags(tags.tags, 1, revs.cached_revisions)

\* a revision() that answers for any digest, without the lookup
RevisionUnchecked(repository, digest) == Returned(Revision(digest))

\* Repository.revision
RepositoryRevision(repository, digest) ==
    IF digest \in DOMAIN repository.cached_revisions
    THEN Returned(repository.cached_revisions[digest])
    ELSE HTTPException(404, "Revision not found")

(***************************************************************************)
(* Registry.  A call works on a record c of the Registry's fields, the     *)
(* clock t (a call takes no ticks) and what the call has done so far:      *)
(* scanned (Registry.load ran), loaded (the repositories whose load ran)   *)
(* and opened (the blob paths handed to open).                             *)
(***************************************************************************)
\* Registry.load, the loop: a fresh Repository per _manifests directory
RegistryLoad(dirs) == [name \in DOMAIN dirs |-> Repository(name)]

\* a TTL test that already expires at the end of the window
ExpiredAtTTL(t, loadTime, ttl) == t >= loadTime + ttl

\* the TTL test of Registry.repositories and Registry.repository
Expired(t, loadTime, ttl) == t > loadTime + ttl

\* Registry.repositories; Registry.load stamps last_load at its end
Repositories(c, dirs) ==
    IF Expired(c.t, c.last_load, registry_load_ttl)
    THEN [c EXCEPT !.cached_repositories = RegistryLoad(dirs),
                   !.last_load = c.t,
                   !.scanned = TRUE]
    ELSE c

\* a refresh that merges what the load found into the revisions cached
\* before: old keys stay, and the tags found are appended to the old lists
RefreshMerges(c, dirs, name, revOrder, tagOrder) ==
    LET repository == c.cached_repositories[name]
        old == repository.cached_revisions
        load == RepositoryLoad(dirs, name, revOrder, tagOrder)
        found == load.cached_revisions
        merged == [d \in DOMAIN old \cup DOMAIN found |->
                     IF d \notin DOMAIN found THEN old[d]
                     ELSE IF d \notin DOMAIN old THEN found[d]
                     ELSE [found[d] EXCEPT !.tags = old[d].tags \o @]]
    IN  IF ~Expired(c.t, repository.last_load, repository_load_ttl)
        THEN [c |-> c, outcome |-> Returned(name)]
        ELSE IF load.raised = "none"
        THEN [c |-> [c EXCEPT !.cached_repositories[name].cached_revisions = merged,
                              !.cached_repositories[name].last_load = c.t,
                              !.loaded = @ \cup {name}],
              outcome |-> Returned(name)]
        ELSE [c |-> [c EXCEPT !.cached_repositories[name].cached_revisions = merged,
                              !.loaded = @ \cup {name}],
              outcome |-> Uncaught(load.raised)]

\* a refresh that stamps last_load whether or not the load completed
RefreshStampsFailure(c, dirs, name, revOrder, tagOrder) ==
    LET repository == c.cached_repositories[name]
        load == RepositoryLoad(dirs, name, revOrder, tagOrder)
    IN  IF ~Expired(c.t, repository.last_load, repository_load_ttl)
        THEN [c |-> c, outcome |-> Returned(name)]
        ELSE [c |-> [c EXCEPT !.cached_repositories[name].cached_revisions =
                                   load.cached_revisions,
                              !.cached_repositories[name].last_load = c.t,
                              !.loaded = @ \cup {name}],
              outcome |-> IF load.raised = "none" THEN Returned(name)
                          ELSE Uncaught(load.raised)]

\* Registry.repository, after the name was found: the own TTL test of the
\* Repository and its load, which stamps last_load only when it completes
RepositoryRefresh(c, dirs, name, revOrder, tagOrder) ==
    LET repository == c.cached_repositories[name]
        load == RepositoryLoad(dirs, name, revOrder, tagOrder)
    IN  IF ~Expired(c.t, repository.last_load, repository_load_ttl)
        THEN [c |-> c, outcome |-> Returned(name)]
        ELSE IF load.raised = "none"
        THEN [c |-> [c EXCEPT !.cached_repositories[name].cached_revisions =
                                   load.cached_revisions,
                              !.cached_repositories[name].last_load = c.t,
                              !.loaded = @ \cup {name}],
              outcome |-> Returned(name)]
        ELSE [c |-> [c EXCEPT !.cached_repositories[name].cached_revisions =
                                   load.cached_revisions,
                              !.loaded = @ \cup {name}],
              outcome |-> Uncaught(load.raised)]

\* a repository() that lets the KeyError of the lookup escape
RepositoryKeyError(c, dirs, name, revOrder, tagOrder) ==
    LET c1 == Repositories(c, dirs)
    IN  IF name \notin DOMAIN c1.cached_repositories
        THEN [c |-> c1, outcome |-> Uncaught("KeyError")]
        ELSE RepositoryRefresh(c1, dirs, name, revOrder, tagOrder)

\* Registry.repository
RegistryRepository(c, dirs, name, revOrder, tagOrder) ==
    LET c1 == Repositories(c, dirs)
    IN  IF name \notin DOMAIN c1.cached_repositories
        THEN [c |-> c1, outcome |-> HTTPException(404, "Repository not found")]
        ELSE RepositoryRefresh(c1, dirs, name, revOrder, tagOrder)

\* a blob_path() without the algorithm test: a path for every digest
BlobPathAnyAlgorithm(digest) ==
    Returned(<<"sha256", SubSeq(Encoded(digest), 1, 2), Encoded(digest), "data">>)

\* Registry.blob_path
BlobPath(digest) ==
    IF Algorithm(digest) /= SHA256
    THEN HTTPException(500, "Invalid digest type")
    ELSE Returned(<<"sha256", SubSeq(Encoded(digest), 1, 2), Encoded(digest), "data">>)

OSErrors == {"FileNotFoundError", "IsADirectoryError", "PermissionError"}

\* the blob files at start-up
InitialBlobs ==
    Put(Put(Put(Empty, BlobPath(D1).value, RegularFile("index")),
            BlobPath(D2).value, RegularFile("manifest")),
        BlobPath(D3).value, RegularFile("config"))

\* a blob() that keeps the blobs in memory: it answers with what the file
\* held at start-up
BlobFromMemory(c, files, digest) ==
    LET path == BlobPath(digest)
        read == OpenRead(InitialBlobs, path.value)
    IN  IF path.raised /= "none" THEN [c |-> c, outcome |-> path]
        ELSE [c |-> [c EXCEPT !.opened = @ \cup {path.value}],
              outcome |->
                IF read.raised = "none"
                THEN Returned([digest |-> digest, content |-> read.value])
                ELSE IF read.raised = "FileNotFoundError"
                THEN HTTPException(404, "Blob not found")
                ELSE IF read.raised \in OSErrors
                THEN HTTPException(500, "Internal Server Error (Blob)")
                ELSE read]

\* a blob() whose `except OSError` comes first and so takes every error
BlobOSErrorFirst(c, files, digest) ==
    LET path == BlobPath(digest)
        read == OpenRead(files, path.value)
    IN  IF path.raised /= "none" THEN [c |-> c, outcome |-> path]
        ELSE [c |-> [c EXCEPT !.opened = @ \cup {path.value}],
              outcome |->
                IF read.raised = "none"
                THEN Returned([digest |-> digest, content |-> read.value])
                ELSE IF read.raised \in OSErrors
                THEN HTTPException(500, "Internal Server Error (Blob)")
                ELSE read]

\* Registry.blob
RegistryBlob(c, files, digest) ==
    LET path == BlobPath(digest)
        read == OpenRead(files, path.value)
    IN  IF path.raised /= "none" THEN [c |-> c, outcome |-> path]
        ELSE [c |-> [c EXCEPT !.opened = @ \cup {path.value}],
              outcome |->
                IF read.raised = "none"
                THEN Returned([digest |-> digest, content |-> read.value])
                ELSE IF read.raised = "FileNotFoundError"
                THEN HTTPException(404, "Blob not found")
                ELSE IF read.raised \in OSErrors
                THEN HTTPException(500, "Internal Server Error (Blob)")
                ELSE read]

\* Registry.manifest, from json.loads on: parse and dispatch on mediaType
ManifestOfBlob(content) ==
    LET parsed == JsonLoads(content)
        data == parsed.value
    IN  IF parsed.raised = "JSONDecodeError"
        THEN HTTPException(500, "Internal Server Error (JSON-blob)")
        ELSE IF data.type /= "dict" THEN Uncaught("AttributeError")
        ELSE IF Get(data, "mediaType") = JStr(oci_image_index)
        THEN IF OciImageIndex(data).ok
             THEN Returned(OciImageIndex(data).v)
             ELSE HTTPException(500, "Internal Server Error (OciImageIndex)")
        ELSE IF Get(data, "mediaType") = JStr(oci_image_manifest)
        THEN IF OciImageManifest(data).ok
             THEN Returned(OciImageManifest(data).v)
             ELSE HTTPException(500, "Internal Server Error (OciImageManifest)")
        ELSE HTTPException(500, "Internal Server Error (MediaType)")

\* Registry.manifest
RegistryManifest(c, dirs, files, name, digest, revOrder, tagOrder) ==
    LET found == RegistryRepository(c, dirs, name, revOrder, tagOrder)
        repository == found.c.cached_repositories[name]
        revision == RepositoryRevision(repository, digest)
        blob == RegistryBlob(found.c, files, revision.value.digest)
    IN  IF found.outcome.raised /= "none" THEN found
        ELSE IF revision.raised /= "none" THEN [c |-> found.c, outcome |-> revision]
        ELSE IF ~Validate(revision.value.digest)
        THEN [c |-> found.c, outcome |-> Uncaught("ValidationError")]
        ELSE IF blob.outcome.raised /= "none" THEN blob
        ELSE [c |-> blob.c, outcome |-> ManifestOfBlob(blob.outcome.value.content)]

\* Registry.config, from json.loads on
ConfigOfBlob(content) ==
    LET parsed == JsonLoads(content)
        data == parsed.value
    IN  IF parsed.raised = "JSONDecodeError"
        THEN HTTPException(500, "Internal Server Error (JSON-blob)")
        ELSE IF data.type /= "dict" THEN Uncaught("TypeError")
        ELSE IF OciImageConfig(data).ok THEN Returned(OciImageConfig(data).v)
        ELSE Uncaught("ValidationError")

\* Registry.config
RegistryConfig(c, files, digest) ==
    LET blob == RegistryBlob(c, files, digest)
    IN  IF blob.outcome.raised /= "none" THEN blob
        ELSE [c |-> blob.c, outcome |-> ConfigOfBlob(blob.outcome.value.content)]

(***************************************************************************)
(* Bounds and the inputs of the calls.                                     *)
(***************************************************************************)
\* how many ticks the clock runs for
MaxTicks == 3
\* how many changes the registry daemon makes to the store
MaxEdits == 1

\* the configured (registry_load_ttl, repository_load_ttl) tried; both
\* default to 3 in Settings
TTLSettings == {<<1, 2>>, <<2, 1>>}
TTLValues == {ttl[i] : ttl \in TTLSettings, i \in {1, 2}}
MaxTTL == CHOOSE m \in TTLValues : \A v \in TTLValues : v <= m
\* time.time() at start-up: past every TTL, as the epoch clock is
StartTime == MaxTTL + 1
EndOfTime == StartTime + MaxTicks
\* a TTL the clock never passes (float('inf'), or more seconds than the epoch
\* clock shows), for either cache
LongTTL == EndOfTime
AnyTTLSettings == TTLSettings \cup {<<LongTTL, 1>>, <<1, LongTTL>>}

CallNames == RepoNames \cup {"missing"}
CallDigests == {D1, D2, D3, D512}
\* the (name, digest) pairs manifest() is called with
ManifestCalls ==
    ({"a"} \X CallDigests) \cup ({"lib/b"} \X {D1, D2}) \cup {<<"missing", D1>>}

NoCall ==
    [op |-> "none", name |-> "", digest |-> <<>>, outcome |-> Returned(None),
     scanned |-> FALSE, loaded |-> {}, opened |-> {}]

\* the store at start-up
InitialDirs ==
    [name \in InitialNames |->
        [revisions |-> {H1}, tags |-> [t \in {"v1"} |-> D1]]]

digest_vars == <<value, validated>>
size_vars == <<image, total>>
worker_vars == <<pc, local_now, pending, observed, disk_seen>>
settings_vars == <<registry_load_ttl, repository_load_ttl>>

IdleInit ==
    /\ value = <<>>
    /\ validated = "unset"
    /\ pc = <<>>
    /\ local_now = <<>>
    /\ pending = <<>>
    /\ observed = <<>>
    /\ disk_seen = {}
    /\ image = None
    /\ total = <<>>

\* RegistryApp.__init__: an empty Registry and the TTLs from the settings
Init ==
    /\ now = StartTime
    /\ \E ttl \in AnyTTLSettings :
          registry_load_ttl = ttl[1] /\ repository_load_ttl = ttl[2]
    /\ repo_dirs = InitialDirs
    /\ blob_files = InitialBlobs
    /\ edits = 0
    /\ cached_repositories = Empty
    /\ last_load = 0
    /\ last = NoCall
    /\ IdleInit

(***************************************************************************)
(* The calls, each one whole.                                              *)
(***************************************************************************)
Call0 ==
    [cached_repositories |-> cached_repositories, last_load |-> last_load,
     t |-> now, scanned |-> FALSE, loaded |-> {}, opened |-> {}]

Finish(op, name, digest, r) ==
    /\ cached_repositories' = r.c.cached_repositories
    /\ last_load' = r.c.last_load
    /\ last' = [op |-> op, name |-> name, digest |-> digest,
                outcome |-> r.outcome, scanned |-> r.c.scanned,
                loaded |-> r.c.loaded, opened |-> r.c.opened]
    /\ UNCHANGED <<now, repo_dirs, blob_files, edits, settings_vars, digest_vars,
                   worker_vars, size_vars>>

\* the orders in which a load of repository `name` may see its directories
RevisionOrders(name) ==
    IF name \in DOMAIN repo_dirs THEN OrdersOf(repo_dirs[name].revisions) ELSE {<<>>}
TagOrders(name) ==
    IF name \in DOMAIN repo_dirs THEN OrdersOf(DOMAIN repo_dirs[name].tags) ELSE {<<>>}

\* read_repositories: registry.repositories()
CallRepositories ==
    LET c == Repositories(Call0, repo_dirs)
    IN  Finish("repositories", "", <<>>,
               [c |-> c, outcome |-> Returned(DOMAIN c.cached_repositories)])

\* read_repository: registry.repository(full_name)
CallRepository ==
    \E name \in CallNames :
        \E revOrder \in RevisionOrders(name), tagOrder \in TagOrders(name) :
            Finish("repository", name, <<>>,
                   RegistryRepository(Call0, repo_dirs, name, revOrder, tagOrder))

\* registry.blob(digest)
CallBlob ==
    \E digest \in CallDigests :
        Finish("blob", "", digest, RegistryBlob(Call0, blob_files, digest))

\* read_revision: registry.manifest(full_name, digest)
CallManifest ==
    \E call \in ManifestCalls :
        \E revOrder \in RevisionOrders(call[1]), tagOrder \in TagOrders(call[1]) :
            Finish("manifest", call[1], call[2],
                   RegistryManifest(Call0, repo_dirs, blob_files, call[1], call[2],
                                    revOrder, tagOrder))

\* read_revision: registry.config(digest)
CallConfig ==
    \E digest \in CallDigests :
        Finish("config", "", digest, RegistryConfig(Call0, blob_files, digest))

(***************************************************************************)
(* The surroundings: the clock, and the registry daemon writing the store. *)
(***************************************************************************)
Env(dirs, files, t, n) ==
    /\ repo_dirs' = dirs
    /\ blob_files' = files
    /\ now' = t
    /\ edits' = n
    /\ last' = NoCall
    /\ UNCHANGED <<cached_repositories, last_load, settings_vars, digest_vars,
                   worker_vars, size_vars>>

Edit(dirs, files) == edits < MaxEdits /\ Env(dirs, files, now, edits + 1)

Tick == now < EndOfTime /\ Env(repo_dirs, blob_files, now + 1, edits)

CreateRepository ==
    \E name \in RepoNames \ DOMAIN repo_dirs :
        Edit(Put(repo_dirs, name, [revisions |-> {}, tags |-> Empty]), blob_files)

DeleteRepository ==
    \E name \in DOMAIN repo_dirs : Edit(Remove(repo_dirs, name), blob_files)

CreateRevision ==
    \E name \in DOMAIN repo_dirs :
        \E hex \in EnvRevisions(name) \ repo_dirs[name].revisions :
            Edit([repo_dirs EXCEPT ![name].revisions = @ \cup {hex}], blob_files)

DeleteRevision ==
    \E name \in DOMAIN repo_dirs :
        \E hex \in repo_dirs[name].revisions :
            Edit([repo_dirs EXCEPT ![name].revisions = @ \ {hex}], blob_files)

WriteTag ==
    \E name \in DOMAIN repo_dirs :
        \E tag \in EnvTags(name), link \in EnvLinks :
            Edit([repo_dirs EXCEPT ![name].tags = Put(@, tag, link)], blob_files)

DeleteTag ==
    \E name \in DOMAIN repo_dirs :
        \E tag \in DOMAIN repo_dirs[name].tags :
            Edit([repo_dirs EXCEPT ![name].tags = Remove(@, tag)], blob_files)

WriteBlob ==
    \E state \in FileStates :
        Edit(repo_dirs, Put(blob_files, BlobPath(D1).value, state))

DeleteBlob ==
    \E path \in DOMAIN blob_files : Edit(repo_dirs, Remove(blob_files, path))

\* the cache layer, with the daemon creating and deleting repositories,
\* revisions and tags
Next ==
    \/ CallRepositories
    \/ CallRepository
    \/ CallManifest
    \/ Tick
    \/ CreateRepository
    \/ DeleteRepository
    \/ CreateRevision
    \/ DeleteRevision
    \/ WriteTag
    \/ DeleteTag

Spec == Init /\ [][Next]_vars

\* the blob store and the resolvers, with the daemon writing and deleting
\* blob files
NextBlob ==
    \/ CallBlob
    \/ CallManifest
    \/ CallConfig
    \/ Tick
    \/ WriteBlob
    \/ DeleteBlob

SpecBlob == Init /\ [][NextBlob]_vars

(***************************************************************************)
(* The digest validator on its own: a string is chosen and validated.      *)
(***************************************************************************)
DigestPrefixes ==
    {SHA256 \o Colon, SHA512 \o Colon, SHA256, <<"m", "d", "5", ":">>,
     <<"S", "H", "A", "2", "5", "6", ":">>, <<" ">> \o SHA256 \o Colon, <<>>}
DigestLengths ==
    {0, HexLen256 - 1, HexLen256, HexLen256 + 1,
     HexLen512 - 1, HexLen512, HexLen512 + 1}
DigestFill == {"a", "0", "F", "g"}
DigestOdd == {"A", "g", "\n", "7"}
DigestSuffixes == {<<>>, <<"\n">>, <<"a">>, <<" ">>}

\* Rep(fill, n), or that with the character at `at` replaced by `odd`
Body(fill, n, at, odd) == [i \in 1..n |-> IF i = at THEN odd ELSE fill]

DigestInputs ==
    {prefix \o Body(fill, n, at, odd) \o suffix :
        prefix \in DigestPrefixes, fill \in DigestFill, n \in DigestLengths,
        at \in {0, 1}, odd \in DigestOdd, suffix \in DigestSuffixes}
    \cup
    {prefix \o Body(fill, n, n, odd) \o suffix :
        prefix \in DigestPrefixes, fill \in DigestFill, n \in DigestLengths,
        odd \in DigestOdd, suffix \in DigestSuffixes}

other_vars ==
    <<now, repo_dirs, blob_files, edits, cached_repositories, last_load, last,
      settings_vars, worker_vars, size_vars>>

InitDigest ==
    /\ value \in DigestInputs
    /\ validated = "unset"
    /\ now = StartTime
    /\ registry_load_ttl = 0
    /\ repository_load_ttl = 0
    /\ repo_dirs = Empty
    /\ blob_files = Empty
    /\ edits = 0
    /\ cached_repositories = Empty
    /\ last_load = 0
    /\ last = NoCall
    /\ pc = <<>>
    /\ local_now = <<>>
    /\ pending = <<>>
    /\ observed = <<>>
    /\ disk_seen = {}
    /\ image = None
    /\ total = <<>>

\* OciDigest(value=...): the validator runs on the value
ParseDigest ==
    /\ validated = "unset"
    /\ validated' = IF Validate(value) THEN "returned" ELSE "ValueError"
    /\ UNCHANGED <<value, other_vars>>

NextDigest == ParseDigest

SpecDigest == InitDigest /\ [][NextDigest]_vars

(***************************************************************************)
(* OciImageManifest.size on its own: a validated manifest is chosen and    *)
(* its size computed.                                                      *)
(***************************************************************************)
\* the most layers a manifest has
MaxLayers == 2
SizeValues == {0, 50, 75, 100}
LayerSizes == UNION {[1..n -> SizeValues] : n \in 0..MaxLayers}

ManifestDoc(configSize, layerSizes) ==
    JDict([schemaVersion |-> JInt(2),
           mediaType |-> JStr(oci_image_manifest),
           config |-> Descriptor(oci_image_config, "D3", configSize),
           layers |-> JList([i \in DOMAIN layerSizes |->
                               Descriptor(oci_layer_tar_gz, "L", layerSizes[i])])])

\* the manifests OciImageManifest(**data) makes of the documents
SizeInputs ==
    {OciImageManifest(ManifestDoc(c, l)).v : c \in SizeValues, l \in LayerSizes}

InitSize ==
    /\ image \in SizeInputs
    /\ total = <<>>
    /\ value = <<>>
    /\ validated = "unset"
    /\ now = StartTime
    /\ registry_load_ttl = 0
    /\ repository_load_ttl = 0
    /\ repo_dirs = Empty
    /\ blob_files = Empty
    /\ edits = 0
    /\ cached_repositories = Empty
    /\ last_load = 0
    /\ last = NoCall
    /\ pc = <<>>
    /\ local_now = <<>>
    /\ pending = <<>>
    /\ observed = <<>>
    /\ disk_seen = {}

\* read_revision: manifest.size()
ComputeSize ==
    /\ total = <<>>
    /\ total' = <<Size(image)>>
    /\ UNCHANGED <<image, now, repo_dirs, blob_files, edits, cached_repositories,
                   last_load, last, settings_vars, worker_vars, digest_vars>>

NextSize == ComputeSize

SpecSize == InitSize /\ [][NextSize]_vars

(***************************************************************************)
(* Registry.repositories() run by concurrent workers, statement by         *)
(* statement: the code takes no lock.                                      *)
(***************************************************************************)
Workers == {1, 2}
Unseen == {"unseen"}

InitWorkers ==
    /\ now = StartTime
    /\ \E ttl \in TTLSettings :
          registry_load_ttl = ttl[1] /\ repository_load_ttl = ttl[2]
    /\ repo_dirs = InitialDirs
    /\ blob_files = InitialBlobs
    /\ edits = 0
    /\ cached_repositories = Empty
    /\ last_load = 0
    /\ last = NoCall
    /\ value = <<>>
    /\ validated = "unset"
    /\ pc = [w \in Workers |-> "idle"]
    /\ local_now = [w \in Workers |-> 0]
    /\ pending = [w \in Workers |-> {}]
    /\ observed = [w \in Workers |-> Unseen]
    /\ disk_seen = {DOMAIN InitialDirs}
    /\ image = None
    /\ total = <<>>

fixed_vars == <<blob_files, last, settings_vars, digest_vars, size_vars>>

\* now = time.time()
ReadClock(w) ==
    /\ pc[w] = "idle"
    /\ local_now' = [local_now EXCEPT ![w] = now]
    /\ pc' = [pc EXCEPT ![w] = "test"]
    /\ observed' = [observed EXCEPT ![w] = Unseen]
    /\ UNCHANGED <<now, repo_dirs, edits, cached_repositories, last_load, pending,
                   disk_seen, fixed_vars>>

\* if now > self.last_load + self.load_ttl
TestTTL(w) ==
    /\ pc[w] = "test"
    /\ pc' = [pc EXCEPT ![w] =
                IF Expired(local_now[w], last_load, registry_load_ttl)
                THEN "clear" ELSE "return"]
    /\ UNCHANGED <<now, repo_dirs, edits, cached_repositories, last_load,
                   local_now, pending, observed, disk_seen, fixed_vars>>

\* Registry.load: self.cached_repositories.clear(), and rglob starts
ClearCache(w) ==
    /\ pc[w] = "clear"
    /\ cached_repositories' = Empty
    /\ pending' = [pending EXCEPT ![w] = DOMAIN repo_dirs]
    /\ pc' = [pc EXCEPT ![w] = "scan"]
    /\ UNCHANGED <<now, repo_dirs, edits, last_load, local_now, observed,
                   disk_seen, fixed_vars>>

\* Registry.load, one turn of the loop: self.cached_repositories[name] = repo
InsertRepository(w) ==
    /\ pc[w] = "scan"
    /\ \E name \in pending[w] :
          /\ cached_repositories' = Put(cached_repositories, name, Repository(name))
          /\ pending' = [pending EXCEPT ![w] = @ \ {name}]
    /\ UNCHANGED <<now, repo_dirs, edits, last_load, pc, local_now, observed,
                   disk_seen, fixed_vars>>

\* Registry.load: self.last_load = time.time()
StampLoad(w) ==
    /\ pc[w] = "scan"
    /\ pending[w] = {}
    /\ last_load' = now
    /\ pc' = [pc EXCEPT ![w] = "return"]
    /\ UNCHANGED <<now, repo_dirs, edits, cached_repositories, local_now, pending,
                   observed, disk_seen, fixed_vars>>

\* return self.cached_repositories, and the caller's list(repositories.keys())
ReturnKeys(w) ==
    /\ pc[w] = "return"
    /\ observed' = [observed EXCEPT ![w] = DOMAIN cached_repositories]
    /\ pc' = [pc EXCEPT ![w] = "idle"]
    /\ UNCHANGED <<now, repo_dirs, edits, cached_repositories, last_load,
                   local_now, pending, disk_seen, fixed_vars>>

WorkerTick ==
    /\ now < EndOfTime
    /\ now' = now + 1
    /\ UNCHANGED <<repo_dirs, edits, cached_repositories, last_load, worker_vars,
                   fixed_vars>>

\* the daemon creates or deletes a repository
WorkerEdit ==
    /\ edits < MaxEdits
    /\ \E dirs \in {Remove(repo_dirs, name) : name \in DOMAIN repo_dirs}
                   \cup {Put(repo_dirs, name, [revisions |-> {}, tags |-> Empty]) :
                           name \in RepoNames \ DOMAIN repo_dirs} :
          /\ repo_dirs' = dirs
          /\ disk_seen' = disk_seen \cup {DOMAIN dirs}
    /\ edits' = edits + 1
    /\ UNCHANGED <<now, cached_repositories, last_load, pc, local_now, pending,
                   observed, fixed_vars>>

NextWorkers ==
    \/ \E w \in Workers :
          \/ ReadClock(w)
          \/ TestTTL(w)
          \/ ClearCache(w)
          \/ InsertRepository(w)
          \/ StampLoad(w)
          \/ ReturnKeys(w)
    \/ WorkerTick
    \/ WorkerEdit

SpecWorkers == InitWorkers /\ [][NextWorkers]_vars

(***************************************************************************)
(* Properties                                                              *)
(***************************************************************************)
\* the revision cache of the repository the last call named holds its digest
InRevisionCache ==
    /\ last.name \in DOMAIN cached_repositories
    /\ last.digest \in DOMAIN cached_repositories[last.name].cached_revisions

\* C1 as stated: manifest(name, digest) reads a blob only if digest is a key
\* of the repository's revision cache, and whenever it is not a key the call
\* is rejected with NotFound and no blob is read.
C1_AsStated ==
    last.op = "manifest" =>
        /\ last.opened /= {} => InRevisionCache
        /\ ~InRevisionCache => NotFound(last.outcome) /\ last.opened = {}

\* C1 amended: manifest(name, digest) reads a blob, and only the blob of that
\* digest, only if digest is a key of the repository's revision cache; when
\* it is not a key no blob is read and no manifest is returned: the call is
\* rejected with NotFound, or, when the repository's load ran in this call
\* and raised, with the exception of that load.
C1_AccessBoundary ==
    last.op = "manifest" =>
        /\ last.opened /= {} =>
              InRevisionCache /\ last.opened = {BlobPath(last.digest).value}
        /\ ~InRevisionCache =>
              /\ last.opened = {}
              /\ last.outcome.raised /= "none"
              /\ \/ NotFound(last.outcome)
                 \/ Escaped(last.outcome) /\ last.name \in last.loaded

\* a manifest() call for a digest whose blob is in the store but which is no
\* revision of the (loaded) repository was rejected with NotFound
C1_Witness ==
    /\ last.op = "manifest"
    /\ last.name = "a"
    /\ last.digest = D3
    /\ "a" \in DOMAIN cached_repositories
    /\ D1 \in DOMAIN cached_repositories["a"].cached_revisions
    /\ BlobPath(D3).value \in DOMAIN blob_files
    /\ ~InRevisionCache
    /\ NotFound(last.outcome)
    /\ last.opened = {}

RepositoriesCalls == {"repositories", "repository", "manifest"}

\* C2: a call that goes through repositories() scans the repositories root
\* exactly when the registry TTL has elapsed since the last load (so a second
\* call inside the window scans nothing and sees the same map), the scan
\* leaves exactly the repositories on disk, stamped with the time of the
\* scan, and no other step scans or changes the map.
C2_ScanOncePerTTL ==
    [][IF last'.op \in RepositoriesCalls
       THEN /\ last'.scanned <=> (now > last_load + registry_load_ttl)
            /\ last'.scanned =>
                  /\ DOMAIN cached_repositories' = DOMAIN repo_dirs'
                  /\ last_load' = now
            /\ ~last'.scanned =>
                  /\ DOMAIN cached_repositories' = DOMAIN cached_repositories
                  /\ last_load' = last_load
       ELSE /\ ~last'.scanned
            /\ cached_repositories' = cached_repositories
            /\ last_load' = last_load]_vars

\* a later scan, after a change on disk, shows the changed set of repositories
C2_Witness ==
    /\ last.op = "repositories"
    /\ last.scanned
    /\ last_load > StartTime
    /\ DOMAIN repo_dirs /= DOMAIN InitialDirs
    /\ last.outcome.value = DOMAIN repo_dirs

\* the repository the last call named was loaded by it, to the end
LoadedNow ==
    /\ last.op \in {"repository", "manifest"}
    /\ last.name \in last.loaded
    /\ last.name \in DOMAIN cached_repositories
    /\ cached_repositories[last.name].last_load = now

\* the places <<digest, i>> of the tags named t in the revision map
PlacesOf(revisions, t) ==
    {p \in UNION {{d} \X DOMAIN revisions[d].tags : d \in DOMAIN revisions} :
        revisions[p[1]].tags[p[2]].name = t}

\* C8: after a successful Repository.load(), every tag directory t whose
\* link names d is in the tag list of revision d exactly once and in no
\* other tag list, and every tag listed under a revision carries that
\* revision's digest and is a tag directory.
C8_TagLinkage ==
    LoadedNow =>
        LET dir == repo_dirs[last.name]
            revisions == cached_repositories[last.name].cached_revisions
        IN  /\ \A t \in DOMAIN dir.tags :
                  /\ dir.tags[t] \in DOMAIN revisions
                  /\ \E i \in DOMAIN revisions[dir.tags[t]].tags :
                        PlacesOf(revisions, t) = {<<dir.tags[t], i>>}
            /\ \A d \in DOMAIN revisions :
                  /\ revisions[d].digest = d
                  /\ \A i \in DOMAIN revisions[d].tags :
                        /\ revisions[d].tags[i].digest = d
                        /\ revisions[d].tags[i].name \in DOMAIN dir.tags

\* a load linked two tags to one revision
C8_Witness ==
    /\ LoadedNow
    /\ \E d \in DOMAIN cached_repositories[last.name].cached_revisions :
          Len(cached_repositories[last.name].cached_revisions[d].tags) = 2

\* C14 as stated: a call of repository(name), made directly or by manifest(),
\* that finds name in the map as an entry Registry.load() created and no
\* call has loaded yet (created by this very call's reload, or by an earlier
\* one) performs that repository's own load.
C14_AsStated ==
    [][(/\ last'.op \in {"repository", "manifest"}
        /\ last'.name \in DOMAIN cached_repositories'
        /\ \/ last'.scanned
           \/ /\ last'.name \in DOMAIN cached_repositories
              /\ cached_repositories[last'.name].last_load = 0)
       => last'.name \in last'.loaded]_vars

\* repository `name` on disk has a tag whose link names no revision directory
OrphanTag(dirs, name) ==
    /\ name \in DOMAIN dirs
    /\ \E t \in DOMAIN dirs[name].tags :
          dirs[name].tags[t] \notin
              {FromRawDigest(SHA256, h) : h \in dirs[name].revisions}

\* every revision directory of repository `name` is named by a sha256 hex digest
RevisionNamesValid(dirs, name) ==
    \A h \in dirs[name].revisions : Validate(FromRawDigest(SHA256, h))

\* C15: a Repository.load() that meets an orphan tag fails with an exception
\* that escapes the call, KeyError when every revision directory name is
\* valid; the failed load leaves the repository's last_load as it was (0 for
\* an entry the registry has just created), so the entry is still expired,
\* and a call for the same name straight after a failed load loads again.
C15_OrphanTag ==
    [][/\ (/\ last'.op \in {"repository", "manifest"}
           /\ last'.name \in last'.loaded
           /\ OrphanTag(repo_dirs, last'.name))
          => LET name == last'.name
                 before == IF last'.scanned THEN 0
                           ELSE cached_repositories[name].last_load
             IN  /\ Escaped(last'.outcome)
                 /\ RevisionNamesValid(repo_dirs, name)
                       => last'.outcome = Uncaught("KeyError")
                 /\ cached_repositories'[name].last_load = before
                 /\ Expired(now', before, repository_load_ttl)
       /\ (/\ last.op \in {"repository", "manifest"}
           /\ last.name \in last.loaded
           /\ Escaped(last.outcome)
           /\ last'.op \in {"repository", "manifest"}
           /\ last'.name = last.name
           /\ last'.name \in DOMAIN cached_repositories')
          => last'.name \in last'.loaded]_vars

\* a reload of a repository loaded before met an orphan tag and failed with
\* KeyError, and the time of the earlier load is still recorded
C15_Witness ==
    /\ last.op = "repository"
    /\ ~last.scanned
    /\ last.name \in last.loaded
    /\ OrphanTag(repo_dirs, last.name)
    /\ last.outcome = Uncaught("KeyError")
    /\ cached_repositories[last.name].last_load \notin {0, now}

\* C16: after every successful Repository.load() the keys of the revision
\* map are exactly the digests of the revision directories on disk at that
\* load, and the tag list of each revision holds exactly the tag directories
\* whose link names it, each once: nothing of an earlier load is left.
C16_WholesaleReplacement ==
    LoadedNow =>
        LET dir == repo_dirs[last.name]
            revisions == cached_repositories[last.name].cached_revisions
        IN  /\ DOMAIN revisions = {FromRawDigest(SHA256, h) : h \in dir.revisions}
            /\ \A d \in DOMAIN revisions :
                  LET linked == {t \in DOMAIN dir.tags : dir.tags[t] = d}
                  IN  /\ {revisions[d].tags[i].name : i \in DOMAIN revisions[d].tags}
                            = linked
                      /\ Len(revisions[d].tags) = Cardinality(linked)

\* a load without a registry reload, after the only tag was deleted on disk,
\* left the revision without tags
C16_Witness ==
    /\ LoadedNow
    /\ ~last.scanned
    /\ last.name = "a"
    /\ DOMAIN repo_dirs["a"].tags = {}
    /\ D1 \in DOMAIN cached_repositories["a"].cached_revisions
    /\ cached_repositories["a"].cached_revisions[D1].tags = <<>>

\* C18 as stated: the map repositories() returns comes from a scan made at
\* most registry_load_ttl before the call, and the revision map of the
\* repository that repository(name) returns comes from a load of it made at
\* most repository_load_ttl before the call (no scan was made before
\* StartTime: a last_load of 0 is a cache that was never filled).
C18_AsStated ==
    /\ last.op = "repositories" =>
          /\ last_load >= StartTime
          /\ now <= last_load + registry_load_ttl
    /\ (last.op = "repository" /\ last.outcome.raised = "none") =>
          /\ cached_repositories[last.name].last_load >= StartTime
          /\ now <= cached_repositories[last.name].last_load + repository_load_ttl

\* C19 as stated: whatever the configured TTLs, no call returns a cache that
\* was never loaded: after a call that goes through repositories() the
\* registry has been scanned (last_load is no longer 0), and a repository
\* that repository(name) returns has been loaded (its last_load is not 0).
C19_AsStated ==
    /\ last.op \in RepositoriesCalls => last_load /= 0
    /\ (last.op = "repository" /\ last.outcome.raised = "none") =>
          cached_repositories[last.name].last_load /= 0

\* C10: repository(name) for a name that is not in the repository map after
\* the registry's own TTL test and reload fails with NotFound and runs no
\* Repository.load.
C10_MissingRepository ==
    (last.op = "repository" /\ last.name \notin DOMAIN cached_repositories) =>
        /\ NotFound(last.outcome)
        /\ last.outcome.detail = "Repository not found"
        /\ last.loaded = {}

\* repository() reloaded the registry and still did not find the name
C10_Witness ==
    /\ last.op = "repository"
    /\ last.name \in InitialNames
    /\ last.scanned
    /\ last.name \notin DOMAIN cached_repositories
    /\ NotFound(last.outcome)

\* the last call opened a regular blob file: its content
OpenedFiles ==
    {path \in last.opened :
        path \in DOMAIN blob_files /\ blob_files[path].kind = "file"}
OpenedContents == {blob_files[path].content : path \in OpenedFiles}

\* the byte strings that are a valid image index, image manifest and image
\* config document; every other one of BlobBytes is not valid JSON
\* ("truncated"), fails its schema, or has another or no mediaType
ValidIndexBytes == {"index"}
ValidManifestBytes == {"manifest"}
ValidConfigBytes == {"config"}

\* C5 as stated: manifest() of a revision whose blob is a valid image index
\* returns the Index variant with its descriptors, of one whose blob is a
\* valid image manifest the Image variant with config and layers, and for
\* every other blob content (another or no mediaType, not JSON, a schema
\* failure) it ends in the internal error, HTTPException(500).
C5_AsStated ==
    last.op = "manifest" =>
        \A content \in OpenedContents :
            /\ content \in ValidIndexBytes =>
                  /\ last.outcome.raised = "none"
                  /\ last.outcome.value.class = "OciImageIndex"
                  /\ Len(last.outcome.value.manifests) = 1
            /\ content \in ValidManifestBytes =>
                  /\ last.outcome.raised = "none"
                  /\ last.outcome.value.class = "OciImageManifest"
                  /\ last.outcome.value.config.size = 100
                  /\ Len(last.outcome.value.layers) = 2
            /\ content \notin ValidIndexBytes \cup ValidManifestBytes =>
                  InternalError(last.outcome)

\* the JSON documents among the opened contents that carry a recognized
\* mediaType and a schemaVersion that is not the number 2
WrongVersionContents ==
    {content \in OpenedContents :
        LET j == JsonLoads(content)
        IN  /\ j.raised = "none"
            /\ j.value.type = "dict"
            /\ Get(j.value, "mediaType") \in
                  {JStr(oci_image_index), JStr(oci_image_manifest)}
            /\ Get(j.value, "schemaVersion") \notin {JInt(2), JFloat(2, 0)}}

\* C11 as stated: manifest() of a revision whose blob has a recognized
\* mediaType and a schemaVersion other than 2 returns no manifest or index
\* value and ends in the internal error, HTTPException(500).
C11_AsStated ==
    (last.op = "manifest" /\ WrongVersionContents /= {}) =>
        InternalError(last.outcome)

\* C12: blob(digest) with a valid digest of another algorithm than sha256
\* (sha512), called directly or through config(digest), ends in the internal
\* error HTTPException(500, 'Invalid digest type') without opening any file.
C12_NonSha256Blob ==
    (last.op \in {"blob", "config"} /\ Algorithm(last.digest) /= SHA256) =>
        /\ InternalError(last.outcome)
        /\ last.outcome.detail = "Invalid digest type"
        /\ last.opened = {}

\* blob() was called with a valid sha512 digest and ended in the internal error
C12_Witness ==
    /\ last.op = "blob"
    /\ Validate(last.digest)
    /\ Algorithm(last.digest) = SHA512
    /\ InternalError(last.outcome)
    /\ last.opened = {}

\* the sum of the sizes of the descriptors of a list
RECURSIVE SumOfSizes(_)
SumOfSizes(descriptors) ==
    IF descriptors = <<>> THEN 0
    ELSE Head(descriptors).size + SumOfSizes(Tail(descriptors))

\* C13: size() of a validated image manifest returns the config descriptor's
\* size plus the sum of the sizes of all layers (100 with layers 50 and 75
\* gives 225; with no layers the config's size), and the step changes
\* neither the manifest nor the caches, the store or the clock.
C13_TotalSize ==
    [][(total = <<>> /\ total' /= <<>>) =>
          /\ total' = <<image.config.size + SumOfSizes(image.layers)>>
          /\ (/\ image.config.size = 100
              /\ [i \in DOMAIN image.layers |-> image.layers[i].size] = <<50, 75>>)
                => total' = <<225>>
          /\ image.layers = <<>> => total' = <<image.config.size>>
          /\ UNCHANGED <<image, cached_repositories, last_load, repo_dirs,
                         blob_files, now, last>>]_vars

\* size() of the manifest with config size 100 and layers 50 and 75 was 225
C13_Witness ==
    /\ total = <<225>>
    /\ image.config.size = 100
    /\ Len(image.layers) = 2
    /\ image.layers[1].size = 50
    /\ image.layers[2].size = 75

\* C17: a blob(), manifest() or config() call that gets as far as the blob
\* answers from the data file as it is on disk at the call: a missing file
\* gives NotFound, and a regular file gives its present content (blob), the
\* index or manifest it now holds (manifest), the config it now holds
\* (config), or the internal error for bytes that are not JSON.
C17_BlobsNotCached ==
    \A path \in last.opened :
        /\ last.op \in {"blob", "manifest", "config"}
        /\ path \notin DOMAIN blob_files =>
              NotFound(last.outcome) /\ last.outcome.detail = "Blob not found"
        /\ (path \in DOMAIN blob_files /\ blob_files[path].kind = "file") =>
              LET content == blob_files[path].content
              IN  /\ last.op = "blob" =>
                        /\ last.outcome.raised = "none"
                        /\ last.outcome.value.content = content
                  /\ (last.op = "manifest" /\ content \in ValidIndexBytes) =>
                        /\ last.outcome.raised = "none"
                        /\ last.outcome.value.class = "OciImageIndex"
                  /\ (last.op = "manifest" /\ content \in ValidManifestBytes) =>
                        /\ last.outcome.raised = "none"
                        /\ last.outcome.value.class = "OciImageManifest"
                  /\ (last.op = "config" /\ content \in ValidConfigBytes) =>
                        /\ last.outcome.raised = "none"
                        /\ last.outcome.value.class = "OciImageConfig"
                  /\ (last.op \in {"manifest", "config"} /\ content = "truncated") =>
                        InternalError(last.outcome)

\* with the registry and repository caches still within their TTL (the call
\* neither scanned nor loaded), manifest() returned the image manifest that
\* was written over the index the file held at start-up
C17_Witness ==
    /\ last.op = "manifest"
    /\ ~last.scanned
    /\ last.loaded = {}
    /\ last.opened = {BlobPath(D1).value}
    /\ InitialBlobs[BlobPath(D1).value] = RegularFile("index")
    /\ blob_files[BlobPath(D1).value] = RegularFile("manifest")
    /\ last.outcome.raised = "none"
    /\ last.outcome.value.class = "OciImageManifest"

\* C6 as stated: config() of a blob that is not valid JSON, or is valid JSON
\* but no valid OciImageConfig, ends in the internal error, HTTPException(500),
\* as manifest() does.
C6_AsStated ==
    last.op = "config" =>
        \A content \in OpenedContents :
            content \notin ValidConfigBytes => InternalError(last.outcome)

\* C7: blob(digest) for a sha256 digest ends in NotFound when the data file
\* is missing, in the internal error when the path is there but cannot be
\* read, and otherwise returns a Blob with that digest and the file's
\* content.
C7_BlobOutcomes ==
    (last.op = "blob" /\ Algorithm(last.digest) = SHA256) =>
        LET path == <<"sha256", SubSeq(Encoded(last.digest), 1, 2),
                      Encoded(last.digest), "data">>
        IN  /\ last.opened = {path}
            /\ path \notin DOMAIN blob_files => NotFound(last.outcome)
            /\ path \in DOMAIN blob_files =>
                  IF blob_files[path].kind = "file"
                  THEN /\ last.outcome.raised = "none"
                       /\ last.outcome.value.digest = last.digest
                       /\ last.outcome.value.content = blob_files[path].content
                  ELSE InternalError(last.outcome)

\* blob() found a directory at the data path and ended in the internal error
C7_Witness ==
    /\ last.op = "blob"
    /\ \E path \in last.opened :
          path \in DOMAIN blob_files /\ blob_files[path].kind = "dir"
    /\ InternalError(last.outcome)

\* the characters 0-9 and a-f
LowerHexDigits == {"0", "1", "2", "3", "4", "5", "6", "7", "8", "9",
                   "a", "b", "c", "d", "e", "f"}

\* s is `algorithm`, a colon and exactly n lowercase hex characters
IsDigestText(s, algorithm, n) ==
    /\ Len(s) = Len(algorithm) + 1 + n
    /\ SubSeq(s, 1, Len(algorithm)) = algorithm
    /\ s[Len(algorithm) + 1] = ":"
    /\ \A i \in (Len(algorithm) + 2)..Len(s) : s[i] \in LowerHexDigits

\* C9: the digest parser accepts a string if and only if it is "sha256:"
\* followed by exactly 64 lowercase hex characters or "sha512:" followed by
\* exactly 128.
C9_AcceptsExactlyDigests ==
    validated /= "unset" =>
        (validated = "returned" <=>
            \/ IsDigestText(value, SHA256, 64)
            \/ IsDigestText(value, SHA512, 128))

\* a sha512 digest was accepted
C9_Witness == validated = "returned" /\ Len(value) = 135

\* C3 as stated: the keys a worker sees in the map repositories() returned
\* are a complete content of the cache, the set of repositories some scan
\* found on disk, never the cleared or partly filled map of a reload in
\* progress.
C3_AsStated == \A w \in DOMAIN observed : observed[w] /= Unseen => observed[w] \in disk_seen

\* C4 as stated: at most one worker at a time is rebuilding the cache.
C4_AsStated == Cardinality({w \in DOMAIN pc : pc[w] \in {"clear", "scan"}}) <= 1


\* every key of every cached revision map is "sha256:" and 64 lowercase hex
\* characters, and is the digest of the Revision stored under it
RevisionKeysValid ==
    \A name \in DOMAIN cached_repositories :
        \A d \in DOMAIN cached_repositories[name].cached_revisions :
            /\ IsDigestText(d, SHA256, 64)
            /\ cached_repositories[name].cached_revisions[d].digest = d

\* the last call was manifest() with a valid sha512 digest
Sha512Manifest ==
    /\ last.op = "manifest"
    /\ IsDigestText(last.digest, SHA512, 128)

\* C20 as stated: the keys of the revision maps are valid sha256 digests
\* equal to their Revision's digest, and manifest(name, d) with a valid
\* sha512 digest d ends in NotFound.
C20_AsStated ==
    /\ RevisionKeysValid
    /\ Sha512Manifest => NotFound(last.outcome)

\* C20 amended: the keys of the revision maps are valid sha256 digests equal
\* to their Revision's digest, and manifest(name, d) with a valid sha512
\* digest d opens no blob and never ends in the internal error: it ends in
\* NotFound, or, when the repository's load ran in this call and raised,
\* with the exception of that load.
C20_RevisionKeys ==
    /\ RevisionKeysValid
    /\ Sha512Manifest =>
          /\ last.opened = {}
          /\ ~InternalError(last.outcome)
          /\ \/ NotFound(last.outcome)
             \/ Escaped(last.outcome) /\ last.name \in last.loaded

\* manifest() with the sha512 digest loaded the repository, to the end, and
\* ended in NotFound for the revision
C20_Witness ==
    /\ Sha512Manifest
    /\ LoadedNow
    /\ cached_repositories[last.name].cached_revisions /= Empty
    /\ NotFound(last.outcome)
    /\ last.outcome.detail = "Revision not found"

====
